---- MODULE Spec2Model ----
(***************************************************************************)
(* The indexer of blockchain.js: connect (primary batch, 2nd-order fee     *)
(* pass, deferred event emission) and disconnect, over an ordered          *)
(* key-value store and a chain RPC.                                        *)
(*                                                                         *)
(* One action is one event-loop task: the reply handler of an RPC, of a    *)
(* batch write, of a point get, or a timer callback, run to completion.    *)
(* The writer is the single follower of the spec (section 5): it issues    *)
(* its next connect/disconnect when the previous one has called back,      *)
(* possibly from inside that callback.                                     *)
(***************************************************************************)
EXTENDS Integers, Sequences, FiniteSets, TLC

VARIABLES
  db,         \* the key-value store: one function (key -> value) per index
  cur,        \* the write-path call in flight, or Idle
  fp,         \* call id -> state of its 2nd-order pass while gets are in flight
  timers,     \* pending setTimeout callbacks, in the order they were set
  log,        \* what the outside saw: calls, callbacks, returns, emitted events
  nCalls,     \* number of calls issued so far
  faults,     \* number of RPC/KV failures injected so far
  connected,  \* history: blocks whose primary batch is committed and not undone
  last,       \* history: store before the latest connect, until the next write
  rd          \* the read-path call in flight, or NoRead

vars == <<db, cur, fp, timers, log, nCalls, faults, connected, last, rd>>

\* ------------------------------------------------------------------ bounds

MaxCalls == 2
MaxFaults == 1

\* ------------------------------------------------------- the chain (RPC data)

Nil == "nil"

CoinbaseIn == [coinbase |-> TRUE, prevTxId |-> Nil, vout |-> 0]

In(prevTxId, vout) == [coinbase |-> FALSE, prevTxId |-> prevTxId, vout |-> vout]

Out(scId, script, value, vout) ==
  [scId |-> scId, script |-> script, value |-> value, vout |-> vout]

Tx(txId, vsize, ins, outs) ==
  [txId |-> txId, txBuffer |-> <<"raw", txId>>, vsize |-> vsize,
   ins |-> ins, outs |-> outs]

\* b0 is the genesis block; b1 and b1x are two competing blocks on top of it
\* (b1x spends an output that b1 spends too).
Chain ==
  [b0 |-> [height |-> 0, size |-> 100, previousblockhash |-> Nil,
           nextblockhash |-> "b1",
           transactions |-> <<
             Tx("c0", 1, <<CoinbaseIn>>,
                <<Out("s1", "p1", 50, 0), Out("s2", "p2", 20, 1)>>) >>],
   b1 |-> [height |-> 1, size |-> 200, previousblockhash |-> "b0",
           nextblockhash |-> Nil,
           transactions |-> <<
             Tx("c1", 1, <<CoinbaseIn>>, <<Out("s1", "p1", 50, 0)>>),
             Tx("t1", 3, <<In("c0", 0), In("c0", 1)>>,
                <<Out("s2", "p2", 40, 0), Out("s1", "p1", 20, 1)>>) >>],
   b1x |-> [height |-> 1, size |-> 150, previousblockhash |-> "b0",
            nextblockhash |-> Nil,
            transactions |-> <<
              Tx("t2", 2, <<In("c0", 0)>>, <<Out("s1", "p1", 45, 0)>>) >>]]

BlockIds == DOMAIN Chain

Heights == {Chain[b].height : b \in BlockIds}

\* Blocks the chain node serves besides those: e0, an empty block; b2, on top
\* of b1, with four transactions; b3y, at height 3 of a branch that forks
\* from b1 and mines t3, the transaction b2 holds at height 2, one block later.
Forks ==
  [e0 |-> [height |-> 0, size |-> 80, previousblockhash |-> Nil,
           nextblockhash |-> Nil, transactions |-> <<>>],
   b2 |-> [height |-> 2, size |-> 300, previousblockhash |-> "b1",
           nextblockhash |-> Nil,
           transactions |-> <<
             Tx("c2", 1, <<CoinbaseIn>>, <<Out("s1", "p1", 50, 0)>>),
             Tx("t3", 2, <<In("c1", 0)>>, <<Out("s2", "p2", 30, 0)>>),
             Tx("t4", 2, <<In("t1", 0)>>, <<Out("s1", "p1", 33, 0)>>),
             Tx("t5", 1, <<In("t1", 1)>>, <<Out("s2", "p2", 19, 0)>>) >>],
   b3y |-> [height |-> 3, size |-> 120, previousblockhash |-> "b2y",
            nextblockhash |-> Nil,
            transactions |-> <<
              Tx("t3", 2, <<In("c1", 0)>>, <<Out("s2", "p2", 30, 0)>>) >>]]

Served == BlockIds \cup DOMAIN Forks

\* rpcUtil.block(rpc, blockId, cb): the body the chain node holds for blockId
RpcBlock(blockId) ==
  IF blockId \in BlockIds THEN Chain[blockId] ELSE Forks[blockId]

\* --------------------------------------------------------- the KV abstraction

EmptyDb ==
  [tip |-> <<>>, txIndex |-> <<>>, txoIndex |-> <<>>, scIndex |-> <<>>,
   spentIndex |-> <<>>, feeIndex |-> <<>>, lbIndex |-> <<>>]

TipKey == [tip |-> TRUE]

Put(type, key, value) == [op |-> "put", type |-> type, key |-> key, value |-> <<value>>]

Del(type, key) == [op |-> "del", type |-> type, key |-> key, value |-> <<>>]

Has(d, type, key) == key \in DOMAIN d[type]

\* db.get: the value, or absent (a normal result)
DbGet(d, type, key) == IF Has(d, type, key) THEN <<d[type][key]>> ELSE <<>>

ApplyOp(d, o) ==
  IF o.op = "put"
  THEN [d EXCEPT ![o.type] = (o.key :> o.value[1]) @@ d[o.type]]
  ELSE [d EXCEPT ![o.type] =
          [k \in (DOMAIN d[o.type]) \ {o.key} |-> d[o.type][k]]]

\* atomic.write: every operation of the batch, in the order it was added
RECURSIVE Apply(_, _)
Apply(d, batch) ==
  IF batch = <<>> THEN d ELSE Apply(ApplyOp(d, Head(batch)), Tail(batch))

RECURSIVE Concat(_)
Concat(ss) == IF ss = <<>> THEN <<>> ELSE Head(ss) \o Concat(Tail(ss))

\* ------------------------------------------------------------ connect: batch

Indexes(seq) == 1 .. Len(seq)

\* lines 24-30: one put per non-coinbase input, keyed on the outpoint it spends
SpentPuts(tx) ==
  Concat([i \in Indexes(tx.ins) |->
    IF tx.ins[i].coinbase THEN <<>>
    ELSE << Put("spentIndex",
                [txId |-> tx.ins[i].prevTxId, vout |-> tx.ins[i].vout],
                [txId |-> tx.txId, vin |-> i - 1]) >>])

\* lines 32-36: per output, the script-activity key and the txo
OutPuts(tx, height) ==
  Concat([i \in Indexes(tx.outs) |->
    << Put("scIndex",
           [scId |-> tx.outs[i].scId, height |-> height, txId |-> tx.txId,
            vout |-> tx.outs[i].vout], "null"),
       Put("txoIndex", [txId |-> tx.txId, vout |-> tx.outs[i].vout],
           [value |-> tx.outs[i].value, script |-> tx.outs[i].script]) >>])

\* lines 21-40
TxPuts(tx, height) ==
  SpentPuts(tx) \o OutPuts(tx, height)
    \o << Put("txIndex", [txId |-> tx.txId], [height |-> height]) >>

\* a tip that lags one block behind the batch it is written with
TipPutStale(blockId, height) ==
  Put("tip", TipKey, [blockId |-> blockId, height |-> height - 1])

\* line 46
TipPutOnConnect(blockId, height) ==
  Put("tip", TipKey, [blockId |-> blockId, height |-> height])

\* lines 18-46: the primary batch
ConnectBatch(blockId, height, block) ==
  Concat([t \in Indexes(block.transactions) |->
            TxPuts(block.transactions[t], height)])
    \o << TipPutOnConnect(blockId, height) >>

\* ----------------------------------------------------------- connect: events

\* line 29
SpentEvents(tx) ==
  Concat([i \in Indexes(tx.ins) |->
    IF tx.ins[i].coinbase THEN <<>>
    ELSE << <<"spent", <<tx.ins[i].prevTxId, tx.ins[i].vout>>, tx.txId>> >>])

\* line 35
ScriptEvents(tx) ==
  [i \in Indexes(tx.outs) |-> <<"script", tx.outs[i].scId, tx.txId, tx.txBuffer>>]

\* the transaction event queued before the events of its inputs and outputs
TxEventsTransactionFirst(tx, blockId) ==
  << <<"transaction", tx.txId, tx.txBuffer, blockId>> >>
    \o SpentEvents(tx) \o ScriptEvents(tx)

\* lines 21-40: the events one transaction queues
TxEvents(tx, blockId) ==
  SpentEvents(tx) \o ScriptEvents(tx)
    \o << <<"transaction", tx.txId, tx.txBuffer, blockId>> >>

\* lines 13-43: the events array of one connect
ConnectEvents(blockId, height, block) ==
  Concat([t \in Indexes(block.transactions) |->
            TxEvents(block.transactions[t], blockId)])
    \o << <<"block", blockId, height>> >>

\* the height check left out
HeightUnchecked(height, block) == TRUE

\* line 16
HeightOk(height, block) == height = block.height

\* --------------------------------------------------------- disconnect: batch

\* the script-activity keys of the outputs left in the store
TxDelsTxoOnly(tx, height) ==
  Concat([i \in Indexes(tx.ins) |->
    IF tx.ins[i].coinbase THEN <<>>
    ELSE << Del("spentIndex",
                [txId |-> tx.ins[i].prevTxId, vout |-> tx.ins[i].vout]) >>])
  \o Concat([i \in Indexes(tx.outs) |->
    << Del("txoIndex", [txId |-> tx.txId, vout |-> i - 1]) >>])
  \o << Del("txIndex", [txId |-> tx.txId]) >>

\* lines 141-155
TxDels(tx, height) ==
  Concat([i \in Indexes(tx.ins) |->
    IF tx.ins[i].coinbase THEN <<>>
    ELSE << Del("spentIndex",
                [txId |-> tx.ins[i].prevTxId, vout |-> tx.ins[i].vout]) >>])
  \o Concat([i \in Indexes(tx.outs) |->
    << Del("scIndex", [scId |-> tx.outs[i].scId, height |-> height,
                       txId |-> tx.txId, vout |-> i - 1]),
       Del("txoIndex", [txId |-> tx.txId, vout |-> i - 1]) >>])
  \o << Del("txIndex", [txId |-> tx.txId]) >>

\* line 158
TipPutOnDisconnect(block) ==
  Put("tip", TipKey,
      [blockId |-> block.previousblockhash, height |-> block.height])

\* lines 138-158
\* the disconnect batch with the fee summary of the block's height deleted too
DisconnectBatchFees(block) ==
  Concat([t \in Indexes(block.transactions) |->
            TxDels(block.transactions[t], block.height)])
    \o << Del("feeIndex", [height |-> block.height]),
          TipPutOnDisconnect(block) >>

DisconnectBatch(block) ==
  Concat([t \in Indexes(block.transactions) |->
            TxDels(block.transactions[t], block.height)])
    \o << TipPutOnDisconnect(block) >>

\* ------------------------------------------------- 2nd-order pass: fee rates

\* data[i] of a 0-based array
At(data, i) == data[i + 1]

\* lines 60-70
\* box with the upper quartile read at the midpoint
boxMid(data) ==
  IF Len(data) = 0 THEN [q1 |-> 0, median |-> 0, q3 |-> 0]
  ELSE LET quarter == Len(data) \div 4
           midpoint == Len(data) \div 2
       IN [q1 |-> At(data, quarter), median |-> At(data, midpoint),
           q3 |-> At(data, midpoint)]

box(data) ==
  IF Len(data) = 0 THEN [q1 |-> 0, median |-> 0, q3 |-> 0]
  ELSE LET quarter == Len(data) \div 4
           midpoint == Len(data) \div 2
       IN [q1 |-> At(data, quarter), median |-> At(data, midpoint),
           q3 |-> At(data, midpoint + quarter)]

RECURSIVE Insert(_, _)
Insert(x, sorted) ==
  IF sorted = <<>> THEN <<x>>
  ELSE IF x <= Head(sorted) THEN <<x>> \o sorted
  ELSE <<Head(sorted)>> \o Insert(x, Tail(sorted))

\* line 127: feeRates.sort((a, b) => a - b)
RECURSIVE Sort(_)
Sort(data) == IF data = <<>> THEN <<>> ELSE Insert(Head(data), Sort(Tail(data)))

RECURSIVE Sum(_)
Sum(values) == IF values = <<>> THEN 0 ELSE Head(values) + Sum(Tail(values))

\* lines 83-87: the transaction has a coinbase input
IsCoinbase(tx) == \E i \in Indexes(tx.ins) : tx.ins[i].coinbase

\* lines 89-98: the inputs (0-based vin) a lookup task was pushed for
SubTasks(tx) == {i - 1 : i \in {j \in Indexes(tx.ins) : ~tx.ins[j].coinbase}}

\* lines 101-103
OutAccum(tx) == Sum([i \in Indexes(tx.outs) |-> tx.outs[i].value])

\* lines 113-114
\* the fee itself, not divided by the vsize
FeeRateTotal(inAccum, tx) == inAccum - OutAccum(tx)

FeeRate(inAccum, tx) == (inAccum - OutAccum(tx)) \div tx.vsize

\* lines 126-129: the batch of the 2nd-order pass
FeeBatch(block, feeRates) ==
  << Put("feeIndex", [height |-> block.height],
         [fees |-> box(Sort(feeRates)), size |-> block.size]) >>

\* an absent txo taken for an output of value 0
TxoLookupLenient(d, input, failed) ==
  IF failed THEN [err |-> "kv", value |-> 0]
  ELSE LET txo == DbGet(d, "txoIndex",
                        [txId |-> input.prevTxId, vout |-> input.vout])
       IN IF txo = <<>> THEN [err |-> "none", value |-> 0]
          ELSE [err |-> "none", value |-> txo[1].value]

\* lines 91-93: what one TxoIndex lookup hands to next
TxoLookup(d, input, failed) ==
  IF failed THEN [err |-> "kv", value |-> 0]
  ELSE LET txo == DbGet(d, "txoIndex",
                        [txId |-> input.prevTxId, vout |-> input.vout])
       IN IF txo = <<>> THEN [err |-> "missing", value |-> 0]
          ELSE [err |-> "none", value |-> txo[1].value]

\* lines 72-123, the synchronous part: coinbase tasks push 0 at once, a task
\* without lookups completes in a microtask, every other lookup is in flight.
FeeStart(blockId, events, block) ==
  LET txs == block.transactions
      waits(t) == ~IsCoinbase(txs[t]) /\ SubTasks(txs[t]) # {}
  IN [blockId |-> blockId,
      events |-> events,
      pend |-> UNION {{<<t, vin>> : vin \in SubTasks(txs[t])} :
                        t \in {u \in Indexes(txs) : waits(u)}},
      inAccum |-> [t \in Indexes(txs) |-> 0],
      left |-> [t \in Indexes(txs) |->
                  IF waits(t) THEN Cardinality(SubTasks(txs[t])) ELSE 0],
      innerLive |-> [t \in Indexes(txs) |-> waits(t)],
      feeRates |->
        Concat([t \in Indexes(txs) |->
                  IF IsCoinbase(txs[t]) THEN <<0>> ELSE <<>>])
        \o Concat([t \in Indexes(txs) |->
                  IF ~IsCoinbase(txs[t]) /\ SubTasks(txs[t]) = {}
                  THEN <<FeeRate(0, txs[t])>> ELSE <<>>]),
      tasksLeft |-> Cardinality({t \in Indexes(txs) : waits(t)}),
      live |-> TRUE]

\* FeeStep with every failing lookup reaching the final callback
FeeStepEveryError(s, block, t, vin, r) ==
  LET tx == block.transactions[t]
      acc == IF r.err = "none" THEN s.inAccum[t] + r.value ELSE s.inAccum[t]
      leftT == s.left[t] - 1
      innerFires == (leftT = 0 \/ r.err # "none") /\ s.innerLive[t]
      tasksLeft == IF innerFires THEN s.tasksLeft - 1 ELSE s.tasksLeft
      outerFires == \/ innerFires /\ (tasksLeft = 0 \/ r.err # "none")
                         /\ s.live
                    \/ r.err # "none"
  IN [s |-> [s EXCEPT !.pend = @ \ {<<t, vin>>},
                      !.inAccum[t] = acc,
                      !.left[t] = leftT,
                      !.innerLive[t] = @ /\ ~innerFires,
                      !.feeRates = IF innerFires /\ r.err = "none"
                                   THEN Append(@, FeeRate(acc, tx)) ELSE @,
                      !.tasksLeft = tasksLeft,
                      !.live = @ /\ ~outerFires],
      fire |-> IF ~outerFires THEN "none"
               ELSE IF r.err # "none" THEN "error" ELSE "commit",
      err |-> r.err]

\* lines 91-97, 111-118 and run-parallel's bookkeeping around them: the reply r
\* of the lookup of input vin of transaction t. fire says what the final
\* callback of the outer parallel (line 123) is called with, if it is called;
\* run-parallel calls a final callback once (innerLive, live) and drops it.
FeeStep(s, block, t, vin, r) ==
  LET tx == block.transactions[t]
      acc == IF r.err = "none" THEN s.inAccum[t] + r.value ELSE s.inAccum[t]
      leftT == s.left[t] - 1
      innerFires == (leftT = 0 \/ r.err # "none") /\ s.innerLive[t]
      tasksLeft == IF innerFires THEN s.tasksLeft - 1 ELSE s.tasksLeft
      outerFires == innerFires /\ (tasksLeft = 0 \/ r.err # "none")
                      /\ s.live
  IN [s |-> [s EXCEPT !.pend = @ \ {<<t, vin>>},
                      !.inAccum[t] = acc,
                      !.left[t] = leftT,
                      !.innerLive[t] = @ /\ ~innerFires,
                      !.feeRates = IF innerFires /\ r.err = "none"
                                   THEN Append(@, FeeRate(acc, tx)) ELSE @,
                      !.tasksLeft = tasksLeft,
                      !.live = @ /\ ~outerFires],
      fire |-> IF ~outerFires THEN "none"
               ELSE IF r.err # "none" THEN "error" ELSE "commit",
      err |-> r.err]

\* lines 72-130 with every lookup answered by store d, one after the other:
\* the error the final callback gets, or the batch it sends
RECURSIVE FeeReplies(_, _, _)
FeeReplies(d, block, s) ==
  LET p == CHOOSE q \in s.pend : TRUE
      r == TxoLookup(d, block.transactions[p[1]].ins[p[2] + 1], FALSE)
      step == FeeStep(s, block, p[1], p[2], r)
  IN IF step.fire = "commit"
     THEN [err |-> "none", batch |-> FeeBatch(block, step.s.feeRates)]
     ELSE IF step.fire = "error" THEN [err |-> step.err, batch |-> <<>>]
     ELSE FeeReplies(d, block, step.s)

FeePass(d, blockId, block) ==
  LET s == FeeStart(blockId, <<>>, block)
  IN IF s.tasksLeft = 0
     THEN [err |-> "none", batch |-> FeeBatch(block, s.feeRates)]
     ELSE FeeReplies(d, block, s)

\* ---------------------------------------------------------------- read path

NoRead == [pc |-> "idle"]

\* history: the stores committed while the read call r is in flight
Seen(r, d) ==
  IF r.pc \in {"idle", "done"} THEN r ELSE [r EXCEPT !.stores = @ \cup {d}]

\* The order of keys is the byte order of their encoding: scId, then height
\* (big-endian), then txId, then vout. Script ids and transaction ids are
\* names here; this is their byte order.
ScIds == <<"s1", "s2">>

TxIds == <<"c0", "c1", "c2", "t1", "t2", "t3", "t4", "t5">>

Rank(names, x) == CHOOSE i \in Indexes(names) : names[i] = x

\* line 198: the all-zero hash, below every transaction id
ZERO64 == 0

\* a height in a key: 32 bits, big-endian, here as its two 16-bit halves
Uint32BE(n) == <<n \div 65536, n % 65536>>

\* line 270: 0xffffffff in a key
MaxUint32BE == <<65535, 65535>>

\* line 262
DefaultLimit == 10000

ScKey(k) ==
  <<Rank(ScIds, k.scId)>> \o Uint32BE(k.height) \o <<Rank(TxIds, k.txId), k.vout>>

FeeKey(k) == Uint32BE(k.height)

\* a < b for encoded keys of one index
RECURSIVE KeyLess(_, _)
KeyLess(a, b) ==
  IF a = <<>> \/ b = <<>> THEN FALSE
  ELSE IF Head(a) # Head(b) THEN Head(a) < Head(b)
  ELSE KeyLess(Tail(a), Tail(b))

\* entries <<encoded key, key>> in key order
RECURSIVE Ordered(_)
Ordered(entries) ==
  IF entries = {} THEN <<>>
  ELSE LET first == CHOOSE e \in entries :
                      \A f \in entries \ {e} : KeyLess(e[1], f[1])
       IN <<first[2]>> \o Ordered(entries \ {first})

Take(seq, n) == SubSeq(seq, 1, IF n < Len(seq) THEN n ELSE Len(seq))

\* lines 268-272: db.iterator(types.scIndex, {gte, lt, limit}): the keys walked
ScIterator(d, gte, lt, limit) ==
  Take(Ordered({<<ScKey(k), k>> : k \in
         {j \in DOMAIN d.scIndex :
            ~KeyLess(ScKey(j), gte) /\ KeyLess(ScKey(j), lt)}}),
       limit)

\* lines 189-192: db.iterator(types.feeIndex, {gte, limit}): the keys walked
FeeIterator(d, gte, limit) ==
  Take(Ordered({<<FeeKey(k), k>> : k \in
         {j \in DOMAIN d.feeIndex : ~KeyLess(FeeKey(j), gte)}}),
       limit)

\* the limit argument: <<>> when it is left out, <<limit>>, or <<offset, end>>
\* lines 257-262
Offset(limit) == IF Len(limit) = 2 THEN limit[1] ELSE 0

IterLimit(limit) ==
  LET given == IF Len(limit) = 2 THEN limit[2] - limit[1]
               ELSE IF Len(limit) = 1 THEN limit[1] ELSE 0
  IN IF given = 0 THEN DefaultLimit ELSE given

\* lines 273-279: the entries pushed to results; count is 1 at the first entry
Results(scId, walked, offset) ==
  LET kept == {count \in Indexes(walked) : ~(count < offset)}
      skipped == Len(walked) - Cardinality(kept)
  IN [i \in 1 .. Cardinality(kept) |->
        [txId |-> walked[i + skipped].txId, vout |-> walked[i + skipped].vout,
         scId |-> scId, height |-> walked[i + skipped].height]]

\* lines 256-281: __txosListByScriptId(scId, height, callback, limit) on store
\* d: what the callback gets
TxosList(d, scId, height, limit) ==
  LET walked == ScIterator(d,
                  <<Rank(ScIds, scId)>> \o Uint32BE(height) \o <<ZERO64, 0>>,
                  <<Rank(ScIds, scId)>> \o MaxUint32BE \o <<ZERO64, 0>>,
                  IterLimit(limit))
  IN [results |-> Results(scId, walked, Offset(limit)),
      position |-> [height |-> height, offset |-> Len(walked)]]

\* line 212: spentFromTxo(txo, callback)
SpentFromTxo(d, txo) ==
  DbGet(d, "spentIndex", [txId |-> txo.txId, vout |-> txo.vout])

\* lines 238-248
\* TxIdSet without the loop over the txos
TxIdSetSpents(txos, spents) ==
  {spents[i][1].txId : i \in {j \in Indexes(spents) : spents[j] # <<>>}}

TxIdSet(txos, spents) ==
  {spents[i][1].txId : i \in {j \in Indexes(spents) : spents[j] # <<>>}}
    \cup {txos[i].txId : i \in Indexes(txos)}

\* line 190: the encoded key {height}. The codec is handed a negative height
\* when n - 1 exceeds the tip height: it rejects it (no key), or the 32 bits it
\* writes are those of 0 or wrap around to 0xffffffff.
GteHeight(height) ==
  IF height >= 0 THEN {Uint32BE(height)} ELSE {Uint32BE(0), MaxUint32BE}

\* lines 187-194: the rows fees(n) hands to its callback, read from store d
FeeRows(d, gte, n) ==
  LET walked == FeeIterator(d, gte, n)
  IN [i \in Indexes(walked) |->
        [height |-> walked[i].height, fees |-> d.feeIndex[walked[i]].fees,
         size |-> d.feeIndex[walked[i]].size]]

\* ------------------------------------------------------------------- calls

Idle == [pc |-> "idle"]

NoLast == [blockId |-> Nil, before |-> EmptyDb, ok |-> FALSE]

\* connect(blockId, height, callback), its RPC request sent
NewConnect(id, blockId, height) ==
  [pc |-> "rpc", id |-> id, op |-> "connect", blockId |-> blockId,
   height |-> height, batch |-> <<>>, events |-> <<>>]

\* disconnect(blockId, callback), its RPC request sent
NewDisconnect(id, blockId) ==
  [pc |-> "rpc", id |-> id, op |-> "disconnect", blockId |-> blockId,
   batch |-> <<>>]

\* what the follower may ask for next
Calls(id) ==
  {NewConnect(id, b, h) : b \in BlockIds, h \in Heights}
    \cup {NewDisconnect(id, b) : b \in BlockIds}

CallEntry(call) ==
  IF call.op = "connect"
  THEN [kind |-> "call", call |-> call.id, op |-> call.op,
        blockId |-> call.blockId, height |-> call.height]
  ELSE [kind |-> "call", call |-> call.id, op |-> call.op,
        blockId |-> call.blockId]

CallbackEntry(c, err, result) ==
  [kind |-> "callback", call |-> c, err |-> err, result |-> result]

ReturnEntry(c) == [kind |-> "return", call |-> c]

EmitEntry(c, args) == [kind |-> "emit", call |-> c, args |-> args]

Emits(c, events) == [i \in Indexes(events) |-> EmitEntry(c, events[i])]

\* the events emitted in the tick of the callback, without a timer
EmissionSync(c, events) == [now |-> Emits(c, events), later |-> <<>>]

\* lines 52-54: what connect does with its events once the callback returned:
\* nothing now, everything in a timer callback
Emission(c, events) ==
  [now |-> <<>>, later |-> << [call |-> c, events |-> events] >>]

NoEmission == [now |-> <<>>, later |-> <<>>]

\* the timer set last fires first
TimerLast(pending) == Len(pending)

\* the timer that fires next: timers of one delay fire in the order they were set
TimerNext(pending) == 1

\* callback(err, result) of call c, run to its return, then what the caller
\* scheduled after it (e). The follower may issue its next call from inside
\* the callback; that call only sends its RPC request.
Report(c, err, result, e) ==
  /\ timers' = timers \o e.later
  /\ \/ /\ cur' = IF cur.pc # "idle" /\ cur.id = c THEN Idle ELSE cur
        /\ nCalls' = nCalls
        /\ log' = log \o <<CallbackEntry(c, err, result), ReturnEntry(c)>> \o e.now
     \/ /\ cur.pc # "idle" /\ cur.id = c
        /\ nCalls < MaxCalls
        /\ nCalls' = nCalls + 1
        /\ \E call \in Calls(nCalls + 1) :
             /\ cur' = call
             /\ log' = log \o <<CallbackEntry(c, err, result), CallEntry(call),
                                ReturnEntry(c)>> \o e.now

\* ----------------------------------------------------------------- connect

\* line 12-14: connect(blockId, height, callback) sends the RPC request
ConnectCall(blockId, height) ==
  /\ cur = Idle
  /\ nCalls < MaxCalls
  /\ nCalls' = nCalls + 1
  /\ cur' = NewConnect(nCalls + 1, blockId, height)
  /\ log' = log \o <<CallEntry(cur')>>
  /\ UNCHANGED <<db, fp, timers, faults, connected, last, rd>>

\* line 15
ConnectRpcError ==
  /\ cur.pc = "rpc" /\ cur.op = "connect"
  /\ faults < MaxFaults
  /\ faults' = faults + 1
  /\ Report(cur.id, "rpc", Nil, NoEmission)
  /\ UNCHANGED <<db, fp, connected, last, rd>>

\* line 16
ConnectHeightMismatch ==
  /\ cur.pc = "rpc" /\ cur.op = "connect"
  /\ ~HeightOk(cur.height, RpcBlock(cur.blockId))
  /\ Report(cur.id, "mismatch", Nil, NoEmission)
  /\ UNCHANGED <<db, fp, faults, connected, last, rd>>

\* lines 18-47: the batch and the events are built, the batch is sent
ConnectPrepare ==
  /\ cur.pc = "rpc" /\ cur.op = "connect"
  /\ HeightOk(cur.height, RpcBlock(cur.blockId))
  /\ cur' = [cur EXCEPT
       !.pc = "write1",
       !.batch = ConnectBatch(cur.blockId, cur.height, RpcBlock(cur.blockId)),
       !.events = ConnectEvents(cur.blockId, cur.height, RpcBlock(cur.blockId))]
  /\ UNCHANGED <<db, fp, timers, log, nCalls, faults, connected, last, rd>>

\* line 48: the primary batch failed, nothing of it is in the store
ConnectWriteError ==
  /\ cur.pc = "write1"
  /\ faults < MaxFaults
  /\ faults' = faults + 1
  /\ Report(cur.id, "kv", Nil, NoEmission)
  /\ UNCHANGED <<db, fp, connected, last, rd>>

\* lines 47-50 and 72-123: the primary batch is committed and the 2nd-order
\* pass starts; without any lookup to wait for it sends its batch at once
ConnectWriteOk ==
  /\ cur.pc = "write1"
  /\ db' = Apply(db, cur.batch)
  /\ connected' = connected \cup {cur.blockId}
  /\ last' = [blockId |-> cur.blockId, before |-> db, ok |-> FALSE]
  /\ LET s == FeeStart(cur.blockId, cur.events, RpcBlock(cur.blockId))
     IN IF s.tasksLeft = 0
        THEN /\ cur' = [cur EXCEPT
                  !.pc = "write2",
                  !.batch = FeeBatch(RpcBlock(cur.blockId), s.feeRates)]
             /\ fp' = fp
        ELSE /\ cur' = [cur EXCEPT !.pc = "fee", !.batch = <<>>]
             /\ fp' = (cur.id :> s) @@ fp
  /\ UNCHANGED <<timers, log, nCalls, faults>>
  /\ rd' = Seen(rd, db')

\* lines 50-55: the callback of connect2ndOrder
ConnectDone(c, blockId, events, err) ==
  /\ Report(c, err, RpcBlock(blockId).nextblockhash, Emission(c, events))
  /\ last' = IF err = "none" THEN [last EXCEPT !.ok = TRUE] ELSE NoLast

\* lines 91-97, 111-118, 123-130: the reply of one TxoIndex lookup
FeeGet(c, t, vin, failed) ==
  /\ c \in DOMAIN fp
  /\ <<t, vin>> \in fp[c].pend
  /\ failed => faults < MaxFaults
  /\ faults' = IF failed THEN faults + 1 ELSE faults
  /\ LET block == RpcBlock(fp[c].blockId)
         r == TxoLookup(db, block.transactions[t].ins[vin + 1], failed)
         step == FeeStep(fp[c], block, t, vin, r)
     IN /\ fp' = IF step.s.pend = {}
                 THEN [k \in (DOMAIN fp) \ {c} |-> fp[k]]
                 ELSE [fp EXCEPT ![c] = step.s]
        /\ \/ /\ step.fire = "none"
              /\ UNCHANGED <<cur, timers, log, nCalls, last>>
           \/ /\ step.fire = "error"
              /\ ConnectDone(c, fp[c].blockId, fp[c].events, step.err)
           \/ /\ step.fire = "commit"
              /\ cur' = [cur EXCEPT !.pc = "write2",
                                    !.batch = FeeBatch(block, step.s.feeRates)]
              /\ UNCHANGED <<timers, log, nCalls, last>>
  /\ UNCHANGED <<db, connected, rd>>

\* line 130 failed
ConnectFeeWriteError ==
  /\ cur.pc = "write2"
  /\ faults < MaxFaults
  /\ faults' = faults + 1
  /\ ConnectDone(cur.id, cur.blockId, cur.events, "kv")
  /\ UNCHANGED <<db, fp, connected, rd>>

\* line 130 committed
ConnectFeeWriteOk ==
  /\ cur.pc = "write2"
  /\ db' = Apply(db, cur.batch)
  /\ ConnectDone(cur.id, cur.blockId, cur.events, "none")
  /\ UNCHANGED <<fp, faults, connected>>
  /\ rd' = Seen(rd, db')

\* lines 52-54: the timer callback emits every event of its connect, in order
TimerFire ==
  /\ timers # <<>>
  /\ LET i == TimerNext(timers)
     IN /\ log' = log \o Emits(timers[i].call, timers[i].events)
        /\ timers' = SubSeq(timers, 1, i - 1) \o SubSeq(timers, i + 1, Len(timers))
  /\ UNCHANGED <<db, cur, fp, nCalls, faults, connected, last, rd>>

\* -------------------------------------------------------------- disconnect

\* lines 134-135
DisconnectCall(blockId) ==
  /\ cur = Idle
  /\ nCalls < MaxCalls
  /\ nCalls' = nCalls + 1
  /\ cur' = NewDisconnect(nCalls + 1, blockId)
  /\ log' = log \o <<CallEntry(cur')>>
  /\ UNCHANGED <<db, fp, timers, faults, connected, last, rd>>

\* line 136
DisconnectRpcError ==
  /\ cur.pc = "rpc" /\ cur.op = "disconnect"
  /\ faults < MaxFaults
  /\ faults' = faults + 1
  /\ Report(cur.id, "rpc", Nil, NoEmission)
  /\ UNCHANGED <<db, fp, connected, last, rd>>

\* lines 138-159
DisconnectPrepare ==
  /\ cur.pc = "rpc" /\ cur.op = "disconnect"
  /\ cur' = [cur EXCEPT !.pc = "dwrite",
                        !.batch = DisconnectBatch(RpcBlock(cur.blockId))]
  /\ UNCHANGED <<db, fp, timers, log, nCalls, faults, connected, last, rd>>

\* line 159: atomic.write(callback) failed
DisconnectWriteError ==
  /\ cur.pc = "dwrite"
  /\ faults < MaxFaults
  /\ faults' = faults + 1
  /\ Report(cur.id, "kv", Nil, NoEmission)
  /\ UNCHANGED <<db, fp, connected, last, rd>>

\* line 159: atomic.write(callback) committed
DisconnectWriteOk ==
  /\ cur.pc = "dwrite"
  /\ db' = Apply(db, cur.batch)
  /\ connected' = connected \ {cur.blockId}
  /\ last' = NoLast
  /\ Report(cur.id, "none", Nil, NoEmission)
  /\ UNCHANGED <<fp, faults>>
  /\ rd' = Seen(rd, db')

\* ------------------------------------------------------------ specification

Init ==
  /\ db = EmptyDb
  /\ cur = Idle
  /\ fp = <<>>
  /\ timers = <<>>
  /\ log = <<>>
  /\ nCalls = 0
  /\ faults = 0
  /\ connected = {}
  /\ last = NoLast
  /\ rd = NoRead

Next ==
  \/ \E b \in BlockIds, h \in Heights : ConnectCall(b, h)
  \/ ConnectRpcError
  \/ ConnectHeightMismatch
  \/ ConnectPrepare
  \/ ConnectWriteError
  \/ ConnectWriteOk
  \/ \E c \in DOMAIN fp, t \in 1 .. 2, vin \in 0 .. 1, failed \in BOOLEAN :
       FeeGet(c, t, vin, failed)
  \/ ConnectFeeWriteError
  \/ ConnectFeeWriteOk
  \/ TimerFire
  \/ \E b \in BlockIds : DisconnectCall(b)
  \/ DisconnectRpcError
  \/ DisconnectPrepare
  \/ DisconnectWriteError
  \/ DisconnectWriteOk

Spec == Init /\ [][Next]_vars

\* ------------------------------------------- whole calls, on a quiet store

\* connect(blockId, block.height, callback) from its call to its callback,
\* with no failure of the RPC or of the store and nothing else in between
StoreConnect(blockId) ==
  /\ cur = Idle /\ rd = NoRead
  /\ LET block == RpcBlock(blockId)
         primary == Apply(db, ConnectBatch(blockId, block.height, block))
         pass == FeePass(primary, blockId, block)
     IN /\ db' = Apply(primary, pass.batch)
        /\ last' = [blockId |-> blockId, before |-> db, ok |-> pass.err = "none"]
  /\ connected' = connected \cup {blockId}
  /\ UNCHANGED <<cur, fp, timers, log, nCalls, faults, rd>>

\* disconnect(blockId, callback) from its call to its callback, likewise
StoreDisconnect(blockId) ==
  /\ cur = Idle /\ rd = NoRead
  /\ db' = Apply(db, DisconnectBatch(RpcBlock(blockId)))
  /\ connected' = connected \ {blockId}
  /\ last' = NoLast
  /\ UNCHANGED <<cur, fp, timers, log, nCalls, faults, rd>>

\* the blocks this follower walks: b0 or the empty e0, then b1, b2, b3y
StoreBlockIds == {"b0", "b1"} \cup DOMAIN Forks

\* any sequence of connect and disconnect calls, each run to its callback
NextStore ==
  \/ \E b \in StoreBlockIds : StoreConnect(b)
  \/ \E b \in StoreBlockIds : StoreDisconnect(b)

StoreSpec == Init /\ [][NextStore]_vars

\* --------------------------------------------------------------- read calls

MaxEnd == 2
MaxN == 2

writerVars == <<db, cur, fp, timers, log, nCalls, faults, connected, last>>

\* the limit arguments tried: left out, or a page <<offset, end>>
Limits ==
  {<<>>} \cup UNION {{<<o, e>> : e \in o .. MaxEnd} : o \in 0 .. MaxEnd}

\* the callback of a read call is called
Done(r, result, position, threw) ==
  [pc |-> "done", op |-> r.op, args |-> r.args, stores |-> r.stores,
   result |-> result, position |-> position, threw |-> threw]

NoPosition == [height |-> 0, offset |-> 0]

\* lines 227-228 and 256-271: transactionIdsByScriptId (op "txIds") or
\* __txosListByScriptId (op "txos") is called and opens its iterator
ScanCall(op, scId, height, limit) ==
  /\ rd = NoRead
  /\ rd' = [pc |-> "scan", op |-> op,
            args |-> [scId |-> scId, height |-> height, limit |-> limit],
            stores |-> {db}]
  /\ UNCHANGED writerVars

\* lines 272-280 and 228-235: the iterator has walked the store as it is now;
\* transactionIdsByScriptId then sends one SpentIndex get per txo (none: the
\* parallel of no task completes at once)
ScanReply ==
  /\ rd.pc = "scan"
  /\ LET list == TxosList(db, rd.args.scId, rd.args.height, rd.args.limit)
     IN rd' = IF rd.op = "txos"
              THEN Done(rd, list.results, list.position, FALSE)
              ELSE IF list.results = <<>>
              THEN Done(rd, {}, list.position, FALSE)
              ELSE [pc |-> "spent", op |-> rd.op, args |-> rd.args,
                    stores |-> rd.stores, txos |-> list.results,
                    position |-> list.position,
                    pend |-> Indexes(list.results),
                    spents |-> [i \in Indexes(list.results) |-> <<>>]]
  /\ UNCHANGED writerVars

\* lines 232 and 235-250: the reply of the SpentIndex get of txo i; the last
\* one builds the set and calls back
SpentReply(i) ==
  /\ rd.pc = "spent"
  /\ i \in rd.pend
  /\ LET spents == [rd.spents EXCEPT ![i] = SpentFromTxo(db, rd.txos[i])]
     IN rd' = IF rd.pend = {i}
              THEN Done(rd, TxIdSet(rd.txos, spents), rd.position, FALSE)
              ELSE [rd EXCEPT !.spents = spents, !.pend = @ \ {i}]
  /\ UNCHANGED writerVars

\* lines 182-183: fees(n, callback) sends its Tip get
FeesCall(n) ==
  /\ rd = NoRead
  /\ rd' = [pc |-> "tip", op |-> "fees", args |-> [n |-> n], stores |-> {db}]
  /\ UNCHANGED writerVars

\* lines 183-191: the reply of the Tip get. result.height of an absent Tip
\* throws, and so does a key the codec rejects; otherwise the FeeIndex
\* iterator is opened
TipReply ==
  /\ rd.pc = "tip"
  /\ LET tip == DbGet(db, "tip", TipKey)
         from == IF tip = <<>> THEN 0 ELSE tip[1].height - (rd.args.n - 1)
     IN \/ /\ tip = <<>> \/ from < 0
           /\ rd' = Done(rd, <<>>, NoPosition, TRUE)
        \/ /\ tip # <<>>
           /\ \E gte \in GteHeight(from) :
                rd' = [pc |-> "feescan", op |-> rd.op, args |-> rd.args,
                       stores |-> rd.stores, gte |-> gte]
  /\ UNCHANGED writerVars

\* lines 192-194: the iterator has walked the store as it is now
FeeScanReply ==
  /\ rd.pc = "feescan"
  /\ rd' = Done(rd, FeeRows(db, rd.gte, rd.args.n), NoPosition, FALSE)
  /\ UNCHANGED writerVars

\* the caller has its result
ReadReturn ==
  /\ rd.pc = "done"
  /\ rd' = NoRead
  /\ UNCHANGED writerVars

\* read calls on a quiet store: no write-path call runs while one is in flight
QueryBlockIds == {"b0", "b1", "b2"}

NextQuery ==
  \/ \E b \in QueryBlockIds : StoreConnect(b)
  \/ \E b \in QueryBlockIds : StoreDisconnect(b)
  \/ \E op \in {"txos", "txIds"}, i \in Indexes(ScIds), h \in Heights,
        limit \in Limits : ScanCall(op, ScIds[i], h, limit)
  \/ ScanReply
  \/ \E i \in 1 .. 5 : SpentReply(i)
  \/ \E n \in 1 .. MaxN : FeesCall(n)
  \/ TipReply
  \/ FeeScanReply
  \/ ReadReturn

QuerySpec == Init /\ [][NextQuery]_vars

\* one read call while the writer of Spec runs: reads and commits interleave
NextRead ==
  \/ Next
  \/ \E i \in Indexes(ScIds), h \in Heights : ScanCall("txIds", ScIds[i], h, <<>>)
  \/ ScanReply
  \/ \E i \in 1 .. 5 : SpentReply(i)
  \/ \E n \in 1 .. MaxN : FeesCall(n)
  \/ TipReply
  \/ FeeScanReply

ReadSpec == Init /\ [][NextRead]_vars

\* ------------------------------------------------------ reading the log

LogIdx == 1 .. Len(log)

IsEmit(e) == e.kind = "emit"

EmitsOf(c) == SelectSeq(log, LAMBDA e : IsEmit(e) /\ e.call = c)

\* call c is a connect of blockId at height
IsConnect(c, blockId, height) ==
  \E i \in LogIdx :
    /\ log[i].kind = "call" /\ log[i].call = c /\ log[i].op = "connect"
    /\ log[i].blockId = blockId /\ log[i].height = height

\* call c has called back with err
Called(c, err) ==
  \E i \in LogIdx :
    log[i].kind = "callback" /\ log[i].call = c /\ log[i].err = err

CalledBack(c) ==
  \E i \in LogIdx : log[i].kind = "callback" /\ log[i].call = c

TimerPending(c) == \E i \in Indexes(timers) : timers[i].call = c

\* this step calls the callback of call c with err
Reports(c, err) ==
  /\ Len(log') > Len(log)
  /\ log'[Len(log) + 1].kind = "callback"
  /\ log'[Len(log) + 1].call = c
  /\ log'[Len(log) + 1].err = err

ReportsError(c) == \E err \in {"rpc", "mismatch", "kv", "missing"} : Reports(c, err)

\* the entries this step adds to the log
Added == {i \in 1 .. Len(log') : i > Len(log)}

TipOf(d) == DbGet(d, "tip", TipKey)

\* ------------------------------------------------------------------ claims

\* the keys the primary batch of connect(blockId, height) writes keep, in store
\* after, the value (or the absence) they have in store before
KeysRestored(before, after, blockId, height) ==
  LET batch == ConnectBatch(blockId, height, RpcBlock(blockId))
  IN \A i \in Indexes(batch) :
       DbGet(after, batch[i].type, batch[i].key)
         = DbGet(before, batch[i].type, batch[i].key)

\* C1: a successful connect(B, B.height) followed by a successful
\* disconnect(B) leaves every key that connect wrote (Tip, TxIndex, TxoIndex,
\* ScriptIndex, SpentIndex) with the value it had before the connect; absent
\* keys are absent again and Tip is the pre-connect Tip.
C1_RoundTrip ==
  [][ ( /\ cur.pc = "dwrite"
        /\ last.ok /\ last.blockId = cur.blockId
        /\ Reports(cur.id, "none") )
      => KeysRestored(last.before, db', cur.blockId,
                      RpcBlock(cur.blockId).height) ]_vars

\* C2: when connect(blockId, h) calls back without error, Tip is
\* {blockId, h}; when h is the height of the pre-connect Tip plus one, the
\* height of Tip has grown by one, so k such connects make it grow by k.
C2_TipAfterConnect ==
  [][ ( /\ cur.pc # "idle" /\ cur.op = "connect"
        /\ Reports(cur.id, "none") )
      => /\ TipOf(db') = << [blockId |-> cur.blockId, height |-> cur.height] >>
         /\ last.blockId = cur.blockId
         /\ ( /\ TipOf(last.before) # <<>>
              /\ cur.height = TipOf(last.before)[1].height + 1 )
            => TipOf(db')[1].height = TipOf(last.before)[1].height + 1 ]_vars

\* C2 witness: two connects at consecutive heights have called back without
\* error and Tip is the second block at height 1.
C2_Witness ==
  /\ cur = Idle
  /\ \E c1, c2 \in 1 .. nCalls :
       /\ c1 < c2
       /\ IsConnect(c1, "b0", 0) /\ Called(c1, "none")
       /\ IsConnect(c2, "b1", 1) /\ Called(c2, "none")
  /\ TipOf(db) = << [blockId |-> "b1", height |-> 1] >>

\* C3: after a successful disconnect of a block at height h, Tip is
\* {previousblockhash of that block, h - 1}.
C3_TipAfterDisconnect ==
  [][ ( /\ cur.pc = "dwrite"
        /\ Reports(cur.id, "none") )
      => TipOf(db') =
           << [blockId |-> RpcBlock(cur.blockId).previousblockhash,
               height |-> RpcBlock(cur.blockId).height - 1] >> ]_vars

\* C4: a connect that reports an error to its callback (RPC failure, height
\* mismatch, primary commit failure, failure of the fee pass) never has any of
\* its events emitted.
C4_NoEmissionOnError ==
  \A i \in LogIdx, j \in LogIdx :
    ( /\ log[i].kind = "callback" /\ log[i].err # "none"
      /\ IsEmit(log[j]) )
    => log[j].call # log[i].call

RECURSIVE ExpectedSpent(_, _)
ExpectedSpent(tx, ins) ==
  IF ins = <<>> THEN <<>>
  ELSE (IF Head(ins).coinbase THEN <<>>
        ELSE << <<"spent", <<Head(ins).prevTxId, Head(ins).vout>>, tx.txId>> >>)
       \o ExpectedSpent(tx, Tail(ins))

RECURSIVE ExpectedScript(_, _)
ExpectedScript(tx, outs) ==
  IF outs = <<>> THEN <<>>
  ELSE << <<"script", Head(outs).scId, tx.txId, tx.txBuffer>> >>
       \o ExpectedScript(tx, Tail(outs))

RECURSIVE ExpectedOfTxs(_, _)
ExpectedOfTxs(txs, blockId) ==
  IF txs = <<>> THEN <<>>
  ELSE ExpectedSpent(Head(txs), Head(txs).ins)
       \o ExpectedScript(Head(txs), Head(txs).outs)
       \o << <<"transaction", Head(txs).txId, Head(txs).txBuffer, blockId>> >>
       \o ExpectedOfTxs(Tail(txs), blockId)

\* the event sequence the claim gives for a successful connect(blockId, height)
Expected(c, blockId, height) ==
  Emits(c, ExpectedOfTxs(RpcBlock(blockId).transactions, blockId)
             \o << <<"block", blockId, height>> >>)

\* C5: the events emitted for one successful connect(blockId, h) are, in this
\* order and each once: per transaction in block order its spent events (one
\* per non-coinbase input, in input order), its script events (one per output,
\* in output order), its transaction event; then one block event, last.
\* Until its timer fires none of them is emitted.
C5_EventSequence ==
  \A i \in LogIdx :
    ( /\ log[i].kind = "call" /\ log[i].op = "connect"
      /\ Called(log[i].call, "none") )
    => EmitsOf(log[i].call) =
         IF TimerPending(log[i].call) THEN <<>>
         ELSE Expected(log[i].call, log[i].blockId, log[i].height)

\* C5 witness: the eight events of a successful connect of b1 (a coinbase
\* transaction, then one with two inputs and two outputs) are emitted.
C5_Witness ==
  \E c \in 1 .. nCalls :
    /\ IsConnect(c, "b1", 1) /\ Called(c, "none")
    /\ Len(EmitsOf(c)) = 8

\* C6: no event of a connect is emitted before its completion callback has
\* been called and has returned: events are emitted in a later step than the
\* one that runs the callback, and never between a callback and its return.
C6_DeferredEmission ==
  /\ [][ \A i \in Added :
           IsEmit(log'[i]) =>
             \E j \in LogIdx : log[j] = ReturnEntry(log'[i].call) ]_vars
  /\ [](\A i \in LogIdx :
          log[i].kind = "callback" =>
            \E j \in LogIdx :
              /\ j > i /\ log[j] = ReturnEntry(log[i].call)
              /\ \A k \in LogIdx : (i < k /\ k < j) => ~IsEmit(log[k]))

\* C6 witness: the events of a connect are emitted while the call the follower
\* issued from inside its callback is in flight.
C6_Witness ==
  \E i \in LogIdx :
    /\ log[i].kind = "callback"
    /\ i + 1 \in LogIdx /\ log[i + 1].kind = "call"
    /\ EmitsOf(log[i].call) # <<>>
    /\ cur.pc # "idle"

\* the calls whose events were emitted, one entry per event, in log order
EmitCalls ==
  LET emitted == SelectSeq(log, IsEmit)
  IN [i \in Indexes(emitted) |-> emitted[i].call]

\* C7: when connect(B) has called back before connect(B') starts (B' may start
\* inside the callback of B), every event of B is emitted before the first
\* event of B'. Calls are numbered as they are issued and each is issued when
\* the one before has called back: B precedes B' iff its number is smaller.
C7_CrossBlockOrder ==
  LET calls == EmitCalls
  IN /\ \A c \in 1 .. nCalls - 1 : CalledBack(c)
     /\ \A i \in 1 .. Len(calls) - 1 : calls[i] <= calls[i + 1]
     /\ \A k \in Indexes(timers) :
          calls # <<>> => timers[k].call > calls[Len(calls)]

\* C7 witness: B' was started inside the callback of B, both timers were
\* pending together, and the events of both are emitted.
C7_Witness ==
  \E i \in LogIdx :
    /\ log[i].kind = "callback" /\ log[i].err = "none"
    /\ i + 1 \in LogIdx /\ log[i + 1].kind = "call"
    /\ EmitsOf(log[i].call) # <<>>
    /\ EmitsOf(log[i + 1].call) # <<>>
    /\ \E k \in LogIdx :
         /\ log[k].kind = "callback" /\ log[k].call = log[i + 1].call
         /\ \A m \in LogIdx : (IsEmit(log[m]) /\ log[m].call = log[i].call) => m > k

\* C8: when the RPC block fetch of connect or disconnect fails, or the height
\* connect expects differs from the height of the fetched block, the callback
\* gets the error, no key of the store is written or deleted, no timer is set
\* and no event is emitted, in that step or later.
C8_FailureBeforeCommit ==
  /\ [][ ( /\ cur.pc = "rpc"
           /\ \/ Reports(cur.id, "rpc")
              \/ /\ cur.op = "connect"
                 /\ cur.height # RpcBlock(cur.blockId).height
                 /\ cur' # cur )
         => /\ Reports(cur.id, "rpc") \/ Reports(cur.id, "mismatch")
            /\ db' = db
            /\ timers' = timers
            /\ \A i \in Added : ~IsEmit(log'[i]) ]_vars
  /\ [](\A c \in 1 .. nCalls :
          (Called(c, "rpc") \/ Called(c, "mismatch"))
          => EmitsOf(c) = <<>> /\ ~TimerPending(c))

\* C8 witness: on a store that holds a connected block, a connect has failed
\* with a height mismatch.
C8_Witness ==
  /\ db = Apply(Apply(EmptyDb, ConnectBatch("b0", 0, RpcBlock("b0"))),
                FeeBatch(RpcBlock("b0"), <<0>>))
  /\ \E c \in 1 .. nCalls : Called(c, "mismatch")
  /\ cur = Idle

\* the lookup of a non-coinbase input of call c that this step answers with
\* absent or with a failure
LookupFails(c) ==
  \E p \in fp[c].pend :
    /\ c \in DOMAIN fp' => p \notin fp'[c].pend
    /\ \/ faults' > faults
       \/ LET input == RpcBlock(fp[c].blockId).transactions[p[1]].ins[p[2] + 1]
          IN ~Has(db, "txoIndex",
                  [txId |-> input.prevTxId, vout |-> input.vout])

\* every put of the primary batch of connect(blockId, height) is in store d
PrimaryCommitted(d, blockId, height) ==
  LET batch == ConnectBatch(blockId, height, RpcBlock(blockId))
  IN \A i \in Indexes(batch) :
       DbGet(d, batch[i].type, batch[i].key) = batch[i].value

\* C9: when a TxoIndex lookup of the fee pass of connect(B, h) returns absent
\* or fails, connect reports an error to its callback, that call writes no
\* FeeIndex entry (the store is as it was, and FeeIndex is written only by a
\* call that has not called back), and every put of the primary batch (Tip,
\* TxIndex, TxoIndex, ScriptIndex, SpentIndex entries of B) stays in the store.
C9_FeePassFailure ==
  [][ /\ ( /\ cur.pc = "fee" /\ cur.id \in DOMAIN fp
           /\ LookupFails(cur.id) )
         => /\ ReportsError(cur.id)
            /\ db' = db
            /\ PrimaryCommitted(db', cur.blockId, cur.height)
      /\ db'.feeIndex # db.feeIndex
         => cur.pc = "write2" /\ ~CalledBack(cur.id) ]_vars

\* C9 witness: a connect has failed on a missing txo; its Tip and its
\* SpentIndex entries are in the store and FeeIndex has no entry.
C9_Witness ==
  \E c \in 1 .. nCalls :
    /\ IsConnect(c, "b1", 1) /\ Called(c, "missing")
    /\ PrimaryCommitted(db, "b1", 1)
    /\ db.feeIndex = <<>>

\* the non-coinbase inputs of the transactions of block b, as
\* <<transaction, 0-based vin>>
Spends(b) ==
  UNION {{<<t, vin>> : vin \in SubTasks(RpcBlock(b).transactions[t])} :
           t \in Indexes(RpcBlock(b).transactions)}

\* C10: in every reachable state a SpentIndex entry keyed (prevTxId, vout)
\* exists only if the TxoIndex entry (prevTxId, vout) exists, and every
\* non-coinbase input of a connected, not yet disconnected block whose txo
\* exists has its SpentIndex entry, with value {txId, vin} of that input.
C10_SpendTxoCoupling ==
  /\ \A k \in DOMAIN db.spentIndex : Has(db, "txoIndex", k)
  /\ \A b \in connected : \A p \in Spends(b) :
       LET tx == RpcBlock(b).transactions[p[1]]
           key == [txId |-> tx.ins[p[2] + 1].prevTxId,
                   vout |-> tx.ins[p[2] + 1].vout]
       IN Has(db, "txoIndex", key)
          => DbGet(db, "spentIndex", key)
               = << [txId |-> tx.txId, vin |-> p[2]] >>

\* the outputs of the transactions of every block served, with the script id
\* each commits to
Outputs ==
  UNION {UNION {{[txId |-> RpcBlock(b).transactions[t].txId,
                  vout |-> RpcBlock(b).transactions[t].outs[i].vout,
                  scId |-> RpcBlock(b).transactions[t].outs[i].scId] :
                   i \in Indexes(RpcBlock(b).transactions[t].outs)} :
                 t \in Indexes(RpcBlock(b).transactions)} : b \in Served}

ScriptOf(txId, vout) ==
  (CHOOSE o \in Outputs : o.txId = txId /\ o.vout = vout).scId

\* the heights of the blocks that hold transaction txId
HeightsOf(txId) ==
  {RpcBlock(b).height : b \in {c \in Served :
     \E t \in Indexes(RpcBlock(c).transactions) :
       RpcBlock(c).transactions[t].txId = txId}}

\* each TxoIndex entry has its ScriptIndex key, at the height TxIndex gives
TxosHaveScriptKeys ==
  \A k \in DOMAIN db.txoIndex :
    /\ Has(db, "txIndex", [txId |-> k.txId])
    /\ Has(db, "scIndex",
           [scId |-> ScriptOf(k.txId, k.vout),
            height |-> db.txIndex[[txId |-> k.txId]].height,
            txId |-> k.txId, vout |-> k.vout])

\* C11 as stated: in every state reachable by any sequence of connect and
\* disconnect calls, each TxoIndex entry (txId, vout) of an output committing
\* to scId has the ScriptIndex key (scId, height, txId, vout) with height the
\* height of TxIndex[txId], and no ScriptIndex key exists for an output whose
\* TxoIndex entry is absent.
C11_ScriptActivity ==
  /\ TxosHaveScriptKeys
  /\ \A k \in DOMAIN db.scIndex :
       Has(db, "txoIndex", [txId |-> k.txId, vout |-> k.vout])

\* C11, amended: each TxoIndex entry has its ScriptIndex key at the height of
\* TxIndex[txId]; a ScriptIndex key (scId, h, txId, vout) whose TxoIndex entry
\* is absent exists only for a transaction that a block of another height than
\* h holds too (connect writes the key at the height of its block, disconnect
\* deletes the key at the height of its block and the txo whatever the height).
C11_ScriptActivityForked ==
  /\ TxosHaveScriptKeys
  /\ \A k \in DOMAIN db.scIndex :
       ~Has(db, "txoIndex", [txId |-> k.txId, vout |-> k.vout])
         => \E h \in HeightsOf(k.txId) : h # k.height

\* C11 witness: b0, b1 and b2 were connected and b2 is disconnected again: the
\* five outputs of b0 and b1 have their txo and their script-activity key,
\* the outputs of b2 have neither.
C11_Witness ==
  /\ connected = {"b0", "b1"}
  /\ last = NoLast
  /\ Cardinality(DOMAIN db.txoIndex) = 5
  /\ Cardinality(DOMAIN db.scIndex) = 5
  /\ DbGet(db, "tip", TipKey) = << [blockId |-> "b1", height |-> 2] >>

\* what the read call r hands to its callback when all of it runs against the
\* one store d: every outcome it can have there
ReadOn(d, r) ==
  IF r.op = "fees"
  THEN LET tip == DbGet(d, "tip", TipKey)
           from == IF tip = <<>> THEN 0 ELSE tip[1].height - (r.args.n - 1)
       IN {[result |-> <<>>, position |-> NoPosition, threw |-> TRUE] :
             x \in IF tip = <<>> \/ from < 0 THEN {0} ELSE {}}
          \cup {[result |-> FeeRows(d, gte, r.args.n), position |-> NoPosition,
                 threw |-> FALSE] :
                  gte \in IF tip = <<>> THEN {} ELSE GteHeight(from)}
  ELSE LET list == TxosList(d, r.args.scId, r.args.height, r.args.limit)
           spents == [i \in Indexes(list.results) |->
                        SpentFromTxo(d, list.results[i])]
       IN {[result |-> IF r.op = "txos" THEN list.results
                       ELSE TxIdSet(list.results, spents),
            position |-> list.position, threw |-> FALSE]}

\* C12: what a read call hands to its callback is what that call returns
\* when it runs against one single committed store state, one of the states
\* the store went through while the call was in flight, also when connect and
\* disconnect commits interleave with it: transactionIdsByScriptId (a scan,
\* then one SpentIndex get per txo) and fees (a Tip get, then a FeeIndex scan)
\* never combine data of two committed states.
C12_SnapshotReads ==
  rd.pc = "done"
    => \E d \in rd.stores :
         [result |-> rd.result, position |-> rd.position, threw |-> rd.threw]
           \in ReadOn(d, rd)

(***************************************************************************)
(* The fee summary of one block, for every fee-rate sample: the sample is  *)
(* drawn at the start, in the order the fee pass collected it, and one     *)
(* step sorts it, boxes it and commits the FeeIndex entry of block e0.     *)
(***************************************************************************)
MaxSample == 4
MaxRate == 3

Samples == UNION {[1 .. n -> 0 .. MaxRate] : n \in 0 .. MaxSample}

InitBox ==
  /\ db = EmptyDb
  /\ cur \in {[pc |-> "rates", feeRates |-> sample] : sample \in Samples}
  /\ fp = <<>>
  /\ timers = <<>>
  /\ log = <<>>
  /\ nCalls = 0
  /\ faults = 0
  /\ connected = {}
  /\ last = NoLast
  /\ rd = NoRead

BoxWrite ==
  /\ cur.pc = "rates"
  /\ db' = Apply(db, FeeBatch(RpcBlock("e0"), cur.feeRates))
  /\ cur' = [cur EXCEPT !.pc = "boxed"]
  /\ UNCHANGED <<fp, timers, log, nCalls, faults, connected, last, rd>>

NextBox == BoxWrite

BoxSpec == InitBox /\ [][NextBox]_vars

\* the k-th smallest value of a sample, k from 1
Nth(sample, k) ==
  CHOOSE v \in {sample[i] : i \in Indexes(sample)} :
    /\ Cardinality({i \in Indexes(sample) : sample[i] < v}) < k
    /\ k <= Cardinality({i \in Indexes(sample) : sample[i] <= v})

Boxed(n) == cur.pc = "boxed" /\ Len(cur.feeRates) = n

\* C13 as stated: when the sorted fee-rate sample of a block is [a, b, c, d],
\* the box summary written to FeeIndex is (q1, median, q3) = (a, c, c).
C13_FourSamplesACC ==
  Boxed(4)
    => db.feeIndex[[height |-> 0]].fees
         = [q1 |-> Nth(cur.feeRates, 1), median |-> Nth(cur.feeRates, 3),
            q3 |-> Nth(cur.feeRates, 3)]

\* C13 amended: when the sorted fee-rate sample of a block is [a, b, c, d],
\* the box summary written to FeeIndex is (q1, median, q3) = (b, c, d).
C13_FourSamplesBCD ==
  Boxed(4)
    => db.feeIndex[[height |-> 0]].fees
         = [q1 |-> Nth(cur.feeRates, 2), median |-> Nth(cur.feeRates, 3),
            q3 |-> Nth(cur.feeRates, 4)]

C13_Witness ==
  /\ Boxed(4)
  /\ cur.feeRates = <<3, 0, 2, 1>>
  /\ db.feeIndex[[height |-> 0]] =
       [fees |-> [q1 |-> 1, median |-> 2, q3 |-> 3], size |-> 80]

\* the ScriptIndex keys of scId at or above a height, in the store
KeysFrom(scId, height) ==
  {k \in DOMAIN db.scIndex : k.scId = scId /\ k.height >= height}

Outpoint(k) == [txId |-> k.txId, vout |-> k.vout]

\* C14: in a quiet store, transactionIdsByScriptId(scId, fromHeight) with the
\* default limit returns exactly the txIds of the ScriptIndex entries of scId
\* with height >= fromHeight, together with the txId of the SpentIndex entry
\* of each of those outputs that has one, and no other txId.
C14_ScriptScanJoin ==
  (rd.pc = "done" /\ rd.op = "txIds" /\ rd.args.limit = <<>>)
    => LET keys == KeysFrom(rd.args.scId, rd.args.height)
       IN rd.result =
            {k.txId : k \in keys}
              \cup {db.spentIndex[Outpoint(k)].txId :
                      k \in {j \in keys : Outpoint(j) \in DOMAIN db.spentIndex}}

C14_Witness ==
  /\ rd.pc = "done" /\ rd.op = "txIds"
  /\ rd.args = [scId |-> "s1", height |-> 1, limit |-> <<>>]
  /\ connected = {"b0", "b1", "b2"}
  /\ rd.result = {"c1", "t1", "c2", "t4", "t3", "t5"}

\* a step of a disconnect call: its call, its RPC reply, its commit or the
\* failure of either, its callback
DisconnectStep ==
  \/ cur = Idle /\ cur' # Idle /\ cur'.op = "disconnect"
  \/ cur # Idle /\ cur.op = "disconnect" /\ cur' # cur

\* the calls of the log that are disconnect calls
DisconnectCalls ==
  {log[i].call : i \in {j \in Indexes(log) :
     log[j].kind = "call" /\ log[j].op = "disconnect"}}

\* no event is emitted or waits in a timer on behalf of a disconnect call, and
\* the batch a disconnect call commits has no FeeIndex or LabelIndex operation
NoDisconnectEvent ==
  /\ \A i \in Indexes(log) :
       log[i].kind = "emit" => log[i].call \notin DisconnectCalls
  /\ \A i \in Indexes(timers) : timers[i].call \notin DisconnectCalls
  /\ (cur # Idle /\ cur.pc = "dwrite")
       => \A i \in Indexes(cur.batch) :
            cur.batch[i].type \notin {"feeIndex", "lbIndex"}

\* C15: a disconnect call, successful or not, emits no event (none in any of
\* its steps, none scheduled in a timer, none ever attributed to it) and
\* leaves every FeeIndex entry, the one of the disconnected block's height
\* included, and every LabelIndex entry unchanged.
C15_DisconnectFrame ==
  /\ []NoDisconnectEvent
  /\ [][DisconnectStep =>
          /\ db'.feeIndex = db.feeIndex
          /\ db'.lbIndex = db.lbIndex
          /\ timers' = timers
          /\ \A i \in (Len(log) + 1) .. Len(log') : log'[i].kind # "emit"]_vars

C15_Witness ==
  /\ cur = Idle
  /\ connected = {}
  /\ [height |-> 0] \in DOMAIN db.feeIndex
  /\ DbGet(db, "tip", TipKey) = <<[blockId |-> Nil, height |-> 0]>>
  /\ 2 \in DisconnectCalls
  /\ \E i \in Indexes(log) : log[i] = CallbackEntry(2, "none", Nil)

\* the sum of f over a finite set
RECURSIVE SumOver(_, _)
SumOver(f, set) ==
  IF set = {} THEN 0
  ELSE LET x == CHOOSE y \in set : TRUE IN f[x] + SumOver(f, set \ {x})

\* the fee rate the claim gives a transaction, from the TxoIndex of the store
RateOf(tx) ==
  IF \E i \in Indexes(tx.ins) : tx.ins[i].coinbase THEN 0
  ELSE LET spent == [i \in Indexes(tx.ins) |->
                      db.txoIndex[[txId |-> tx.ins[i].prevTxId,
                                   vout |-> tx.ins[i].vout]].value]
           paid == [i \in Indexes(tx.outs) |-> tx.outs[i].value]
       IN (SumOver(spent, Indexes(tx.ins)) - SumOver(paid, Indexes(tx.outs)))
            \div tx.vsize

\* C16: after a successful connect of a block at height h, FeeIndex[h] is
\* {fees: (q1, median, q3), size: block.size}, the sample holding one value
\* per transaction (0 for a transaction with a coinbase input, otherwise the
\* floor of (sum of the TxoIndex values of its inputs - sum of its output
\* values) / vsize), sorted ascending, and with n the sample size, q = n div 4,
\* m = n div 2: q1 = sample[q], median = sample[m], q3 = sample[m + q], all
\* three 0 when n = 0; m + q < n for n >= 1, so no field is undefined.
C16_FeeIndexValue ==
  last.ok
    => LET block == RpcBlock(last.blockId)
           n == Len(block.transactions)
           sample == [t \in 1 .. n |-> RateOf(block.transactions[t])]
           q == n \div 4
           m == n \div 2
       IN /\ n >= 1 => m + q < n
          /\ DbGet(db, "feeIndex", [height |-> block.height]) =
               << [fees |-> IF n = 0 THEN [q1 |-> 0, median |-> 0, q3 |-> 0]
                            ELSE [q1 |-> Nth(sample, q + 1),
                                  median |-> Nth(sample, m + 1),
                                  q3 |-> Nth(sample, m + q + 1)],
                   size |-> block.size] >>

C16_Witness ==
  /\ last.ok /\ last.blockId = "b2"
  /\ db.feeIndex[[height |-> 2]] =
       [fees |-> [q1 |-> 1, median |-> 3, q3 |-> 10], size |-> 300]

\* ScriptIndex key j comes before key k of the same script in a scan
Before(j, k) ==
  \/ j.height < k.height
  \/ j.height = k.height /\ Rank(TxIds, j.txId) < Rank(TxIds, k.txId)
  \/ j.height = k.height /\ j.txId = k.txId /\ j.vout < k.vout

\* the 0-based position of key k in the scan of keys
ScanPos(k, keys) == Cardinality({j \in keys : Before(j, k)})

\* the entries at scan positions from .. to of the scan of keys, in scan order
Slice(keys, from, to) ==
  LET kept == {k \in keys : ScanPos(k, keys) \in from .. to}
  IN [i \in 1 .. Cardinality(kept) |->
        LET k == CHOOSE j \in kept : ScanPos(j, keys) = from + i - 1
        IN [txId |-> k.txId, vout |-> k.vout, scId |-> k.scId,
            height |-> k.height]]

\* C17: __txosListByScriptId(scId, fromHeight, cb, [offset, end]) discards
\* exactly the first offset entries of the ScriptIndex scan of scId from
\* fromHeight and returns the entries at 0-based scan positions offset to
\* end - 1, fewer only when the scan has fewer entries.
C17_PagerSlice ==
  (rd.pc = "done" /\ rd.op = "txos" /\ Len(rd.args.limit) = 2)
    => rd.result = Slice(KeysFrom(rd.args.scId, rd.args.height),
                         rd.args.limit[1], rd.args.limit[2] - 1)

\* the greatest of a non-empty set of numbers
Max(numbers) == CHOOSE x \in numbers : \A y \in numbers : y <= x

\* the entries the scan of a finished call walked: the first entries of the
\* scan, as many as the limit handed to the iterator allows
Walked ==
  LET limit == rd.args.limit
      most == IF limit = <<>> \/ limit[2] = limit[1] THEN DefaultLimit
              ELSE limit[2] - limit[1]
  IN Slice(KeysFrom(rd.args.scId, rd.args.height), 0, most - 1)

\* C18: the position returned by __txosListByScriptId and by
\* transactionIdsByScriptId is {height, offset} where height is the greatest
\* height among the ScriptIndex entries seen by the scan (fromHeight when none
\* was seen) and offset is the number of entries walked.
C18_PagerPosition ==
  (rd.pc = "done" /\ rd.op \in {"txos", "txIds"})
    => rd.position =
         [height |-> Max({rd.args.height}
                           \cup {Walked[i].height : i \in Indexes(Walked)}),
          offset |-> Len(Walked)]

\* how many times the completion callback of call c was called
Callbacks(c) ==
  Cardinality({i \in Indexes(log) :
                 log[i].kind = "callback" /\ log[i].call = c})

\* the callback of a call in flight was not called yet, that of any other call
\* was called once
CalledBackOnce ==
  \A c \in 1 .. nCalls :
    Callbacks(c) = IF cur # Idle /\ cur.id = c THEN 0 ELSE 1

\* the lookups of the fee pass of call c that have not replied yet
Pending(c) == IF c \in DOMAIN fp THEN fp[c].pend ELSE {}

\* the call in flight waits for a reply: of the RPC, of a commit, or of a
\* lookup of its fee pass, whose final callback was not called yet
AwaitsReply ==
  cur # Idle
    => \/ cur.pc \in {"rpc", "write1", "write2", "dwrite"}
       \/ cur.pc = "fee" /\ cur.id \in DOMAIN fp /\ fp[cur.id].live
            /\ Pending(cur.id) # {}

\* the replies the call in flight may still wait for, one after the other
RepliesLeft ==
  IF cur = Idle THEN 0
  ELSE IF cur.pc = "rpc" THEN 5 + Cardinality(Pending(cur.id))
       ELSE IF cur.pc = "write1" THEN 4 + Cardinality(Pending(cur.id))
       ELSE IF cur.pc = "fee" THEN 1 + Cardinality(Pending(cur.id))
       ELSE 1

\* a reply came for the call in flight and its callback was not called
ReplyStep ==
  /\ cur # Idle /\ cur' # Idle /\ cur'.id = cur.id
  /\ cur' # cur \/ Pending(cur.id)' # Pending(cur.id)

\* C19: every connect call and every disconnect call invokes its completion
\* callback exactly once on every path (RPC error, height mismatch, primary
\* commit error, one or several failing TxoIndex lookups of the fee pass, fee
\* batch commit error, success), given that each RPC and store operation
\* calls back: the callback of a call was called once when the call is over
\* and not yet while it is in flight, a call in flight always waits for a
\* reply, and every reply that does not end the call leaves fewer replies to
\* wait for.
C19_SingleCompletion ==
  /\ [](CalledBackOnce /\ AwaitsReply)
  /\ [][ReplyStep => RepliesLeft' < RepliesLeft]_vars

\* connect of b1 on the empty store: both lookups of t1 fail, the callback
\* was called with the first failure and the second reply has come too
C19_Witness ==
  /\ cur = Idle
  /\ fp = <<>>
  /\ Callbacks(1) = 1
  /\ log[1] = [kind |-> "call", call |-> 1, op |-> "connect",
               blockId |-> "b1", height |-> 1]
  /\ \E i \in Indexes(log) : log[i] = CallbackEntry(1, "missing", Nil)

\* C20: after any sequence of connect and disconnect calls, fees(n) with
\* n >= 1 returns at most n entries in ascending height order, and every
\* returned entry has a height in [Tip.height - (n - 1), Tip.height]: never a
\* fee summary of a height above the current tip, such as one retained from a
\* disconnected block.
C20_FeeWindow ==
  (rd.pc = "done" /\ rd.op = "fees" /\ ~rd.threw)
    => LET tip == db.tip[TipKey]
           n == rd.args.n
       IN /\ Len(rd.result) <= n
          /\ \A i \in Indexes(rd.result) :
               /\ rd.result[i].height >= tip.height - (n - 1)
               /\ rd.result[i].height <= tip.height
               /\ i > 1 => rd.result[i - 1].height < rd.result[i].height

====
